---- MODULE Spec2Model ----
(***************************************************************************)
(* Window lifecycle drivers of CTree:                                      *)
(*   src/main.c                 poll-driven GLFW driver  (variant "glfw")  *)
(*   src/ccode/createwindow.c   message-driven Win32 driver ("win32")      *)
(* The platform (GLFW / USER32) is the environment: it decides the results *)
(* of glfwInit, glfwCreateWindow, RegisterClassEx, CreateWindowEx and      *)
(* GetMessage and it posts events to the thread's queue.                   *)
(***************************************************************************)
EXTENDS Integers, Sequences, FiniteSets, TLC

\* ---- bounds of the model ------------------------------------------------
MaxPosts == 2        \* events the platform posts during one run
MaxErrors == 1       \* times GetMessage reports its error value
MaxIter == 2         \* iterations of the poll loop that are explored

\* ---- values ---------------------------------------------------------------
NULL == 0
Handle == 1                       \* the one handle the platform hands out
Variants == {"glfw", "win32"}
QuitCodes == {0, 7}               \* wParam of a WM_QUIT posted to the thread
MsgKinds == {"WM_CLOSE", "WM_PAINT", "WM_OTHER", "WM_QUIT"}

Msg(k, h, w) == [message |-> k, hwnd |-> h, wParam |-> w]

\* any content a MSG structure can hold (an uninitialised MSG holds any of them)
Msgs == [message : MsgKinds, hwnd : {NULL, Handle}, wParam : QuitCodes]

NoMsg == Msg("NONE", NULL, 0)     \* before `MSG msg;` is in scope

VARIABLES
    variant,      \* which driver runs
    pc,           \* position of the driver
    exitCode,     \* value returned by main / wWinMain (meaningful at "done")
    initOK,       \* result of glfwInit
    classOK,      \* result of RegisterClassEx
    window,       \* `window` of main / `hwnd` of wWinMain
    createCalls,  \* calls of glfwCreateWindow / CreateWindowEx
    queue,        \* the platform's posted-event queue of the thread
    quitFlag,     \* quit requested by PostQuitMessage
    quitCode,     \* exit code given to PostQuitMessage
    msg,          \* `MSG msg` of wWinMain
    ret,          \* last return value of GetMessage
    delivered,    \* history: events the platform delivered to the driver
    dispatched,   \* history: events handed to the window procedure / handlers
    closeFlag,    \* the GLFW window's should-close flag
    nQuery,       \* glfwWindowShouldClose calls
    nFalse,       \* glfwWindowShouldClose calls that returned 0
    firstQuery,   \* result of the first glfwWindowShouldClose call
    nSwap,        \* glfwSwapBuffers calls
    nPoll,        \* glfwPollEvents calls
    paints,       \* WM_PAINT handled by WndProc
    errors,       \* GetMessage error returns so far
    posted,       \* events posted by the platform so far
    handlerQuit,  \* history: WndProc has called PostQuitMessage
    threadQuit    \* history: the platform has posted a WM_QUIT of its own

vars == <<variant, pc, exitCode, initOK, classOK, window, createCalls, queue,
          quitFlag, quitCode, msg, ret, delivered, dispatched, closeFlag,
          nQuery, nFalse, firstQuery, nSwap, nPoll, paints, errors, posted,
          handlerQuit, threadQuit>>

glfwVars == <<closeFlag, nQuery, nFalse, firstQuery, nSwap, nPoll, initOK>>
win32Vars == <<classOK, quitFlag, quitCode, msg, ret, paints, errors, handlerQuit>>
histVars == <<delivered, dispatched, threadQuit>>

Init ==
    /\ variant \in Variants
    /\ pc = IF variant = "glfw" THEN "init" ELSE "register"
    /\ exitCode = 0
    /\ initOK = FALSE
    /\ classOK = FALSE
    /\ window = NULL
    /\ createCalls = 0
    /\ queue = <<>>
    /\ quitFlag = FALSE
    /\ quitCode = 0
    /\ msg = NoMsg
    /\ ret = 1
    /\ delivered = <<>>
    /\ dispatched = <<>>
    /\ closeFlag = FALSE
    /\ nQuery = 0
    /\ nFalse = 0
    /\ firstQuery = "none"
    /\ nSwap = 0
    /\ nPoll = 0
    /\ paints = 0
    /\ errors = 0
    /\ posted = 0
    /\ handlerQuit = FALSE
    /\ threadQuit = FALSE

\* =========================== src/main.c ====================================

\* variant of glfwInit that does not test the result of the call
glfwInit_NoCheck ==
    /\ variant = "glfw" /\ pc = "init"
    /\ \E ok \in BOOLEAN : initOK' = ok
    /\ pc' = "create"
    /\ UNCHANGED <<variant, exitCode, classOK, window, createCalls, queue,
                   quitFlag, quitCode, msg, ret, delivered, dispatched,
                   closeFlag, nQuery, nFalse, firstQuery, nSwap, nPoll, paints,
                   errors, posted, handlerQuit, threadQuit>>

\* main.c:13-14   if (!glfwInit()) return -1;
glfwInit ==
    /\ variant = "glfw" /\ pc = "init"
    /\ \E ok \in BOOLEAN :
         /\ initOK' = ok
         /\ IF ok THEN pc' = "create" /\ UNCHANGED exitCode
                  ELSE pc' = "done" /\ exitCode' = -1
    /\ UNCHANGED <<variant, classOK, window, createCalls, queue, quitFlag,
                   quitCode, msg, ret, delivered, dispatched, closeFlag,
                   nQuery, nFalse, firstQuery, nSwap, nPoll, paints, errors,
                   posted, handlerQuit, threadQuit>>

\* main.c:15   GLFWwindow* window = glfwCreateWindow(...);   (may return NULL;
\* the result is not tested)
glfwCreateWindow ==
    /\ variant = "glfw" /\ pc = "create"
    /\ \E w \in {NULL, Handle} : window' = w
    /\ createCalls' = createCalls + 1
    /\ pc' = "test"
    /\ UNCHANGED <<variant, exitCode, queue, posted>>
    /\ UNCHANGED <<glfwVars, win32Vars, histVars>>

\* bookkeeping of one glfwWindowShouldClose call with result r
QueryResult(r) ==
    /\ nQuery' = nQuery + 1
    /\ nFalse' = IF r THEN nFalse ELSE nFalse + 1
    /\ firstQuery' = IF firstQuery = "none"
                       THEN (IF r THEN "true" ELSE "false")
                       ELSE firstQuery

\* variant of glfwWindowShouldClose whose result is taken as 0 whatever the
\* window's flag is
glfwWindowShouldClose_IgnoresFlag ==
    /\ variant = "glfw" /\ pc = "test"
    /\ nFalse < MaxIter
    /\ QueryResult(FALSE)
    /\ pc' = "swap"
    /\ UNCHANGED <<variant, exitCode, initOK, window, createCalls, queue,
                   closeFlag, nSwap, nPoll, posted>>
    /\ UNCHANGED <<win32Vars, histVars>>

\* main.c:16   while (!glfwWindowShouldClose(window))
\* With a live window the call returns the window's flag.  With window = NULL
\* the call dereferences a null pointer: it may crash or return either value.
glfwWindowShouldClose ==
    /\ variant = "glfw" /\ pc = "test"
    /\ \/ /\ window # NULL
          /\ closeFlag \/ nFalse < MaxIter
          /\ QueryResult(closeFlag)
          /\ pc' = IF closeFlag THEN "return" ELSE "swap"
       \/ /\ window = NULL
          /\ \E r \in BOOLEAN :
               /\ r \/ nFalse < MaxIter
               /\ QueryResult(r)
               /\ pc' = IF r THEN "return" ELSE "swap"
       \/ /\ window = NULL
          /\ nQuery' = nQuery + 1
          /\ UNCHANGED <<nFalse, firstQuery>>
          /\ pc' = "crashed"
    /\ UNCHANGED <<variant, exitCode, initOK, window, createCalls, queue,
                   closeFlag, nSwap, nPoll, posted>>
    /\ UNCHANGED <<win32Vars, histVars>>

\* variant of glfwSwapBuffers after which the loop skips glfwPollEvents
glfwSwapBuffers_SkipPoll ==
    /\ variant = "glfw" /\ pc = "swap"
    /\ nSwap' = nSwap + 1
    /\ \/ pc' = "test"
       \/ window = NULL /\ pc' = "crashed"
    /\ UNCHANGED <<variant, exitCode, initOK, window, createCalls, queue,
                   closeFlag, nQuery, nFalse, firstQuery, nPoll, posted>>
    /\ UNCHANGED <<win32Vars, histVars>>

\* main.c:17   glfwSwapBuffers(window);   (null dereference when window = NULL)
glfwSwapBuffers ==
    /\ variant = "glfw" /\ pc = "swap"
    /\ nSwap' = nSwap + 1
    /\ \/ pc' = "poll"
       \/ window = NULL /\ pc' = "crashed"
    /\ UNCHANGED <<variant, exitCode, initOK, window, createCalls, queue,
                   closeFlag, nQuery, nFalse, firstQuery, nPoll, posted>>
    /\ UNCHANGED <<win32Vars, histVars>>

\* TRUE iff some event of s is a close request
RECURSIVE HasClose(_)
HasClose(s) ==
    IF s = <<>> THEN FALSE
    ELSE Head(s).message = "WM_CLOSE" \/ HasClose(Tail(s))

\* main.c:18   glfwPollEvents();   processes the pending events in order; a
\* close request sets the window's should-close flag
glfwPollEvents ==
    /\ variant = "glfw" /\ pc = "poll"
    /\ nPoll' = nPoll + 1
    /\ delivered' = delivered \o queue
    /\ dispatched' = dispatched \o queue
    /\ closeFlag' = (closeFlag \/ HasClose(queue))
    /\ queue' = <<>>
    /\ pc' = "test"
    /\ UNCHANGED <<variant, exitCode, initOK, window, createCalls, nQuery,
                   nFalse, firstQuery, nSwap, posted, threadQuit>>
    /\ UNCHANGED win32Vars

\* variant of mainReturn that returns 0
mainReturn_Zero ==
    /\ variant = "glfw" /\ pc = "return"
    /\ exitCode' = 0
    /\ pc' = "done"
    /\ UNCHANGED <<variant, window, createCalls, queue, posted>>
    /\ UNCHANGED <<glfwVars, win32Vars, histVars>>

\* main.c:20   return 1;
mainReturn ==
    /\ variant = "glfw" /\ pc = "return"
    /\ exitCode' = 1
    /\ pc' = "done"
    /\ UNCHANGED <<variant, window, createCalls, queue, posted>>
    /\ UNCHANGED <<glfwVars, win32Vars, histVars>>

\* ====================== src/ccode/createwindow.c ===========================

\* createwindow.c:27   RegisterClassEx(&wc);   (result ignored)
RegisterClassEx ==
    /\ variant = "win32" /\ pc = "register"
    /\ \E ok \in BOOLEAN : classOK' = ok
    /\ pc' = "createwin"
    /\ UNCHANGED <<variant, exitCode, window, createCalls, queue, posted,
                   quitFlag, quitCode, msg, ret, paints, errors, handlerQuit>>
    /\ UNCHANGED <<glfwVars, histVars>>

\* createwindow.c:29-34   HWND hwnd = CreateWindowEx(...);   fails when the
\* class is not registered, and may fail for lack of resources
CreateWindowEx ==
    /\ variant = "win32" /\ pc = "createwin"
    /\ \E w \in {NULL, Handle} :
         /\ w = Handle => classOK
         /\ window' = w
    /\ createCalls' = createCalls + 1
    /\ pc' = "check"
    /\ UNCHANGED <<variant, exitCode, queue, posted>>
    /\ UNCHANGED <<glfwVars, win32Vars, histVars>>

\* variant of CheckHwnd that tries CreateWindowEx again after a failure
CheckHwnd_Retry ==
    /\ variant = "win32" /\ pc = "check"
    /\ pc' = IF window = NULL THEN "createwin" ELSE "show"
    /\ UNCHANGED <<variant, exitCode, window, createCalls, queue, posted>>
    /\ UNCHANGED <<glfwVars, win32Vars, histVars>>

\* createwindow.c:36   if (!hwnd) return -1;
CheckHwnd ==
    /\ variant = "win32" /\ pc = "check"
    /\ IF window = NULL
         THEN pc' = "done" /\ exitCode' = -1
         ELSE pc' = "show" /\ UNCHANGED exitCode
    /\ UNCHANGED <<variant, window, createCalls, queue, posted>>
    /\ UNCHANGED <<glfwVars, win32Vars, histVars>>

\* createwindow.c:5   PostQuitMessage(code): requests a WM_QUIT with that code
PostQuitMessage(code) ==
    /\ quitFlag' = TRUE
    /\ quitCode' = code
    /\ handlerQuit' = TRUE

\* createwindow.c:15   DefWindowProc: default processing, no request to quit
DefWindowProc(m) ==
    UNCHANGED <<quitFlag, quitCode, handlerQuit, paints>>

\* variant of WndProc that requests quit for every message it has no case for
WndProc_DefaultQuits(m) ==
    CASE m.message = "WM_CLOSE" ->
           PostQuitMessage(0) /\ UNCHANGED paints
      [] m.message = "WM_PAINT" ->
           paints' = paints + 1 /\ UNCHANGED <<quitFlag, quitCode, handlerQuit>>
      [] OTHER -> PostQuitMessage(0) /\ UNCHANGED paints

\* createwindow.c:2-16   WndProc
WndProc(m) ==
    CASE m.message = "WM_CLOSE" ->
           PostQuitMessage(0) /\ UNCHANGED paints
      [] m.message = "WM_PAINT" ->
           paints' = paints + 1 /\ UNCHANGED <<quitFlag, quitCode, handlerQuit>>
      [] OTHER -> DefWindowProc(m)

\* createwindow.c:37   ShowWindow(hwnd, nCmdShow);
ShowWindow ==
    /\ variant = "win32" /\ pc = "show"
    /\ pc' = "update"
    /\ UNCHANGED <<variant, exitCode, window, createCalls, queue, posted>>
    /\ UNCHANGED <<glfwVars, win32Vars, histVars>>

\* createwindow.c:38   UpdateWindow(hwnd);   sends WM_PAINT straight to WndProc
UpdateWindow ==
    /\ variant = "win32" /\ pc = "update"
    /\ WndProc(Msg("WM_PAINT", window, 0))
    /\ pc' = "declare"
    /\ UNCHANGED <<variant, exitCode, window, createCalls, queue, posted,
                   classOK, msg, ret, errors>>
    /\ UNCHANGED <<glfwVars, histVars>>

\* createwindow.c:40   MSG msg;   uninitialised: any content
DeclareMsg ==
    /\ variant = "win32" /\ pc = "declare"
    /\ msg' \in Msgs
    /\ pc' = "getmsg"
    /\ UNCHANGED <<variant, exitCode, window, createCalls, queue, posted,
                   classOK, quitFlag, quitCode, ret, paints, errors, handlerQuit>>
    /\ UNCHANGED <<glfwVars, histVars>>

\* createwindow.c:41   while (GetMessage(&msg, NULL, 0, 0))
\* GetMessage returns -1 on error (msg untouched), 0 when it retrieves WM_QUIT
\* and nonzero for any other message; it waits while nothing is pending.  The
\* WM_QUIT requested by PostQuitMessage is produced once the posted messages
\* are drained.  `while (x)` continues for every nonzero x, -1 included.
GetMessage ==
    /\ variant = "win32" /\ pc = "getmsg"
    /\ \/ /\ errors < MaxErrors
          /\ ret' = -1
          /\ errors' = errors + 1
          /\ UNCHANGED <<msg, queue, quitFlag, delivered>>
       \/ /\ queue # <<>>
          /\ msg' = Head(queue)
          /\ queue' = Tail(queue)
          /\ delivered' = Append(delivered, Head(queue))
          /\ ret' = IF Head(queue).message = "WM_QUIT" THEN 0 ELSE 1
          /\ UNCHANGED <<errors, quitFlag>>
       \/ /\ queue = <<>> /\ quitFlag
          /\ msg' = Msg("WM_QUIT", NULL, quitCode)
          /\ delivered' = Append(delivered, Msg("WM_QUIT", NULL, quitCode))
          /\ quitFlag' = FALSE
          /\ ret' = 0
          /\ UNCHANGED <<errors, queue>>
    /\ pc' = IF ret' # 0 THEN "translate" ELSE "return"
    /\ UNCHANGED <<variant, exitCode, window, createCalls, posted, classOK,
                   quitCode, paints, handlerQuit, dispatched, threadQuit>>
    /\ UNCHANGED glfwVars

\* createwindow.c:42   TranslateMessage(&msg);
TranslateMessage ==
    /\ variant = "win32" /\ pc = "translate"
    /\ pc' = "dispatch"
    /\ UNCHANGED <<variant, exitCode, window, createCalls, queue, posted>>
    /\ UNCHANGED <<glfwVars, win32Vars, histVars>>

\* createwindow.c:43   DispatchMessage(&msg);   calls the window procedure of
\* msg.hwnd; a message without a window is not dispatched to any procedure
DispatchMessage ==
    /\ variant = "win32" /\ pc = "dispatch"
    /\ dispatched' = Append(dispatched, msg)
    /\ IF msg.hwnd = window
         THEN WndProc(msg)
         ELSE UNCHANGED <<quitFlag, quitCode, handlerQuit, paints>>
    /\ pc' = "getmsg"
    /\ UNCHANGED <<variant, exitCode, window, createCalls, queue, posted,
                   classOK, msg, ret, errors, delivered, threadQuit>>
    /\ UNCHANGED glfwVars

\* variant of wWinMainReturn that returns 0 instead of the quit code
wWinMainReturn_Zero ==
    /\ variant = "win32" /\ pc = "return"
    /\ exitCode' = 0
    /\ pc' = "done"
    /\ UNCHANGED <<variant, window, createCalls, queue, posted>>
    /\ UNCHANGED <<glfwVars, win32Vars, histVars>>

\* createwindow.c:45   return (int)msg.wParam;
wWinMainReturn ==
    /\ variant = "win32" /\ pc = "return"
    /\ exitCode' = msg.wParam
    /\ pc' = "done"
    /\ UNCHANGED <<variant, window, createCalls, queue, posted>>
    /\ UNCHANGED <<glfwVars, win32Vars, histVars>>

\* ============================ the platform =================================

Running == pc \notin {"done", "crashed"}

\* the platform posts an event for the window to the thread's queue
PostWindowEvent ==
    /\ Running /\ window # NULL /\ posted < MaxPosts
    /\ \E k \in (IF variant = "win32" THEN {"WM_CLOSE", "WM_PAINT", "WM_OTHER"}
                                      ELSE {"WM_CLOSE", "WM_OTHER"}) :
         queue' = Append(queue, Msg(k, window, 0))
    /\ posted' = posted + 1
    /\ UNCHANGED <<variant, pc, exitCode, window, createCalls>>
    /\ UNCHANGED <<glfwVars, win32Vars, histVars>>

\* an explicit quit signal: WM_QUIT posted to the thread with some exit code
PostThreadQuit ==
    /\ variant = "win32"
    /\ Running /\ window # NULL /\ posted < MaxPosts
    /\ \E c \in QuitCodes : queue' = Append(queue, Msg("WM_QUIT", NULL, c))
    /\ posted' = posted + 1
    /\ threadQuit' = TRUE
    /\ UNCHANGED <<variant, pc, exitCode, window, createCalls, delivered,
                   dispatched>>
    /\ UNCHANGED <<glfwVars, win32Vars>>

\* ============================ specification ================================

Driver ==
    \/ glfwInit \/ glfwCreateWindow \/ glfwWindowShouldClose
    \/ glfwSwapBuffers \/ glfwPollEvents \/ mainReturn
    \/ RegisterClassEx \/ CreateWindowEx \/ CheckHwnd \/ ShowWindow
    \/ UpdateWindow \/ DeclareMsg \/ GetMessage \/ TranslateMessage
    \/ DispatchMessage \/ wWinMainReturn

Next == Driver \/ PostWindowEvent \/ PostThreadQuit

Spec == Init /\ [][Next]_vars

\* the single thread of the driver keeps running while it can take a step
FairSpec == Spec /\ WF_vars(Driver)

\* ====================== lifecycle of the event loop ========================

LoopPcs == {"test", "swap", "poll", "getmsg", "translate", "dispatch"}

\* TRUE iff some message of s is a WM_QUIT
RECURSIVE HasQuit(_)
HasQuit(s) ==
    IF s = <<>> THEN FALSE
    ELSE Head(s).message = "WM_QUIT" \/ HasQuit(Tail(s))

\* the close signal is raised: the should-close flag (poll loop), a requested
\* or posted WM_QUIT (message loop)
CloseSignal ==
    IF variant = "glfw" THEN closeFlag ELSE quitFlag \/ HasQuit(queue)

Lifecycle ==
    IF pc \in {"return", "done"} /\ createCalls > 0 /\
       (variant = "win32" => window # NULL) THEN "TERMINATED"
    ELSE IF pc \in LoopPcs THEN
        (IF CloseSignal THEN "CLOSE_REQUESTED" ELSE "RUNNING")
    ELSE IF pc = "crashed" THEN "CRASHED"
    ELSE "STARTING"

IsPrefix(s, t) ==
    /\ Len(s) <= Len(t)
    /\ \A i \in 1..Len(s) : s[i] = t[i]

\* ================================ claims ===================================

\* C1: when glfwInit fails, main returns -1 and afterwards no window is ever
\* created and none of glfwWindowShouldClose, glfwSwapBuffers, glfwPollEvents
\* is called.
C1_InitFailureShortCircuits ==
    (variant = "glfw" /\ pc # "init" /\ ~initOK) =>
        /\ pc = "done" /\ exitCode = -1
        /\ createCalls = 0 /\ window = NULL
        /\ nQuery = 0 /\ nSwap = 0 /\ nPoll = 0

C1_Witness ==
    variant = "glfw" /\ pc = "done" /\ ~initOK /\ exitCode = -1

\* C2: in both drivers, when window creation yields NULL the process ends with
\* exit code -1 and the loop is never entered: no event is dispatched and no
\* glfwWindowShouldClose / glfwSwapBuffers / glfwPollEvents call is made.
C2_CreateFailureFatal ==
    (createCalls > 0 /\ window = NULL) =>
        /\ pc # "crashed"
        /\ pc = "done" => exitCode = -1
        /\ nQuery = 0 /\ nSwap = 0 /\ nPoll = 0
        /\ dispatched = <<>>

\* C3: when wWinMain returns after its loop, the value returned is the quit
\* code of the WM_QUIT that ended the loop; it is 0 when that WM_QUIT comes
\* from the WM_CLOSE handler (no other quit was posted).
C3_ExitCodeIsQuitCode ==
    (variant = "win32" /\ pc = "done" /\ window # NULL) =>
        /\ delivered # <<>>
        /\ delivered[Len(delivered)].message = "WM_QUIT"
        /\ exitCode = delivered[Len(delivered)].wParam
        /\ ~threadQuit => (handlerQuit /\ exitCode = 0)

C3_Witness ==
    /\ variant = "win32" /\ pc = "done" /\ window # NULL
    /\ handlerQuit /\ ~threadQuit /\ exitCode = 0
    /\ \E i \in 1..Len(delivered) : delivered[i].message = "WM_CLOSE"

C5_NeverEntersLoop ==
    variant = "glfw" =>
        /\ nQuery <= 1 /\ nSwap = 0 /\ nPoll = 0
        /\ (pc = "done" /\ initOK) => (exitCode = 1 /\ createCalls = 1)

\* C5 (amended): when main returns after a successful glfwInit it has called
\* glfwCreateWindow exactly once and returns 1; it has made no glfwSwapBuffers
\* or glfwPollEvents call exactly when the first glfwWindowShouldClose query
\* returned true, otherwise it has run the dispatch cycle.
C5_LoopUnlessFirstQueryTrue ==
    (variant = "glfw" /\ pc = "done" /\ initOK) =>
        /\ createCalls = 1 /\ exitCode = 1
        /\ (nSwap = 0 /\ nPoll = 0) <=> (firstQuery = "true")
        /\ firstQuery # "none"

C5_Witness ==
    /\ variant = "glfw" /\ pc = "done" /\ initOK /\ exitCode = 1
    /\ firstQuery = "false" /\ nSwap > 0 /\ nPoll > 0

\* C6: in the message loop the lifecycle moves only RUNNING ->
\* CLOSE_REQUESTED -> TERMINATED; RUNNING -> CLOSE_REQUESTED happens only when
\* WM_CLOSE is dispatched to WndProc or a quit is posted, CLOSE_REQUESTED never
\* returns to RUNNING, and nothing is dispatched once TERMINATED.
C6_LifecycleTransitions ==
    [][variant = "win32" =>
        /\ Lifecycle = "RUNNING" => Lifecycle' \in {"RUNNING", "CLOSE_REQUESTED"}
        /\ (Lifecycle = "RUNNING" /\ Lifecycle' = "CLOSE_REQUESTED") =>
             \/ pc = "dispatch" /\ msg.message = "WM_CLOSE" /\ msg.hwnd = window
             \/ /\ Len(queue') = Len(queue) + 1
                /\ queue'[Len(queue')].message = "WM_QUIT"
        /\ Lifecycle = "CLOSE_REQUESTED" =>
             Lifecycle' \in {"CLOSE_REQUESTED", "TERMINATED"}
        /\ Lifecycle = "TERMINATED" =>
             /\ Lifecycle' = "TERMINATED"
             /\ dispatched' = dispatched /\ paints' = paints]_vars

C6_Witness ==
    /\ variant = "win32" /\ Lifecycle = "TERMINATED" /\ handlerQuit
    /\ \E i \in 1..Len(dispatched) :
         dispatched[i].message = "WM_PAINT" /\ dispatched[i].hwnd = window
    /\ \E i \in 1..Len(dispatched) :
         dispatched[i].message = "WM_CLOSE" /\ dispatched[i].hwnd = window

\* C7: once GetMessage has reported an error the message loop has stopped:
\* nothing more is translated or dispatched.
C7_ErrorIsFatal ==
    (variant = "win32" /\ errors > 0) => pc \in {"return", "done"}

\* C8: the events dispatched so far are, in order, a prefix of the events the
\* platform has delivered: none reordered, skipped or duplicated.
C8_DispatchInDeliveryOrder ==
    IsPrefix(dispatched, delivered)

\* C9: a window is created at most once per run, and only before the loop has
\* started.
C9_AtMostOneHandle ==
    [][createCalls' # createCalls =>
         /\ createCalls = 0 /\ createCalls' = 1
         /\ Lifecycle = "STARTING"]_vars

C9_Witness ==
    createCalls = 1 /\ window # NULL /\ Lifecycle = "TERMINATED"

\* C10: in the poll loop every iteration follows a glfwWindowShouldClose query
\* that returned 0 and makes one glfwSwapBuffers call then one glfwPollEvents
\* call, so when main returns the three counts are equal; a first query that
\* returns true leaves both at zero; main returns 1 after a successful
\* glfwInit.
C10_PollLoopCounts ==
    variant = "glfw" =>
        /\ pc \in {"test", "return", "done"} => (nSwap = nPoll /\ nPoll = nFalse)
        /\ pc = "swap" => (nSwap = nPoll /\ nFalse = nSwap + 1)
        /\ pc = "poll" => (nSwap = nPoll + 1 /\ nFalse = nSwap)
        /\ firstQuery = "true" => (nSwap = 0 /\ nPoll = 0)
        /\ pc \in {"return", "done"} /\ initOK => nQuery = nFalse + 1
        /\ pc \in LoopPcs => nQuery = nFalse
        /\ (pc = "done" /\ initOK) => exitCode = 1

C10_Witness ==
    /\ variant = "glfw" /\ pc = "done" /\ window # NULL
    /\ nSwap = 2 /\ nPoll = 2 /\ nFalse = 2 /\ exitCode = 1

====
